---- MODULE Spec2Model ----
(***************************************************************************)
(* Model of the logfix event-delivery core:                                *)
(*   EventQueue        (src/logfix/queue.py)                               *)
(*   BackgroundWorker  (src/logfix/worker.py)                              *)
(*   HttpTransport     (src/logfix/transport.py)                           *)
(*                                                                         *)
(* Spec          : the EventQueue used by concurrent producers (put) and   *)
(*                 concurrent consumers (drain).                           *)
(* SpecWorker    : the BackgroundWorker loop, flush() and stop() working   *)
(*                 on the same EventQueue.                                 *)
(* SpecTransport : the retry loop of HttpTransport.send_batch.             *)
(*                                                                         *)
(* One step of a thread is one operation that Python performs atomically   *)
(* with respect to the other threads: a queue.Queue call (which runs under *)
(* the queue's own mutex), an acquisition of the RLock, or the increment   *)
(* of _dropped_count performed while holding the RLock.                    *)
(***************************************************************************)
EXTENDS Integers, Sequences, FiniteSets, TLC

\* ---------------------------------------------------------------- bounds
MaxEvents == 3      \* put() calls made in one behaviour
MaxCap == 2         \* largest queue_size tried
MaxDrain == 2       \* largest max_items passed to drain()
MaxRetries == 6     \* largest max_retries tried
MaxBatch == 2       \* largest max_batch_size tried
MaxStops == 2       \* stop() calls made in one behaviour
MaxFed == 2         \* put() calls made in one behaviour of the worker

Producers == {"p1", "p2"}
Consumers == {"c1"}
\* the threads that run _do_flush: the background loop, the helper thread of
\* flush(), and the thread that calls start(), flush() and stop()
WorkerThreads == {"bg", "h1", "main", "sig"}
\* the threads whose start() calls race
Starters == {"s1", "s2"}
Drainers == Consumers \cup WorkerThreads
Threads == Producers \cup Drainers

None == "none"

\* config.py defaults
DEFAULT_MAX_BATCH_SIZE == 50
DEFAULT_QUEUE_SIZE == 1000
DEFAULT_MAX_RETRIES == 3

DROP_NEWEST == "drop_newest"
DROP_OLDEST == "drop_oldest"
BLOCK == "block"
OverflowPolicy == {DROP_NEWEST, DROP_OLDEST, BLOCK}

Min(a, b) == IF a <= b THEN a ELSE b

\* ------------------------------------------------------------- variables
VARIABLES
    \* EventQueue fields
    policy,          \* self._policy
    maxsize,         \* self._q.maxsize
    q,               \* self._q, oldest first
    dropped_count,   \* self._dropped_count
    lock,            \* self._lock (RLock): [owner, count]
    \* calls in progress
    pt,              \* per producer, its put() call: [pc, event, result, dropped]
    nextId,          \* id of the next event a producer creates
    dr,              \* per drainer, its drain() call: [pc, items, left, n]
    \* history (not read by the program)
    accepted,        \* events stored by put_nowait/put, in storing order
    rejected,        \* events discarded by the DROP_NEWEST branch
    evicted,         \* events removed by the DROP_OLDEST branch
    drained,         \* concatenation of the batches drain has returned
    watch,           \* the calls are being observed: obs and drained are kept
    obs              \* per call in progress, what its caller can compare:
                     \*   q0, d0  queue and dropped_count when the call began
                     \*   intf    another thread changed the queue or the counter
                     \*   full    the queue was full when the call began
                     \*   sawGet  a drain removed an event during the call
                     \*   drops   _on_drop calls made by the call

\* HttpTransport.send_batch: one call at a time is followed
VARIABLES
    max_retries,     \* self._max_retries
    tpc,             \* position inside send_batch
    nevents,         \* len(events)
    attempt,         \* local `attempt`
    last_result,     \* local `last_result`; the value returned once tpc = "done"
    wait_seconds,    \* local `wait_seconds`, in tenths of a second
    \* history (not read by the program)
    requests,        \* _do_request calls made by this send_batch call
    sleeps,          \* time.sleep calls made by this send_batch call
    answers,         \* the statuses the server gave to this send_batch call
    headers          \* the rate-limit headers of the last response

\* BackgroundWorker
VARIABLES
    max_batch_size,  \* self._max_batch_size
    started,         \* self._started
    stop_event,      \* self._stop_event
    flush_event,     \* self._flush_event
    wk,              \* per worker thread: [pc, batch, flush_remaining]
    closed,          \* calls of self._transport.close()
    \* history (not read by the program)
    sentBatches,     \* the batches given to send_batch, in the order the calls began
    scen,            \* the flush() call under watch: [on, n]; on: n events were
                     \* buffered and the loop idle when it began, and since then
                     \* no put() or stop() has begun and no interval has expired
    st,              \* per starter, its start() call: "none", "thread" (past
                     \* the locked block, about to create the thread), "noop"
    loops,           \* history: loop threads created by start()
    stp,             \* history: the stop() call under watch:
                     \*   armed stop() calls are watched in this specification
                     \*   on    no put() has begun and no send_batch has raised
                     \*         since the call began
                     \*   fr    its flush_remaining
                     \*   owed  the events buffered when it began and not yet
                     \*         given to send_batch
                     \*   ret   it has returned (the watch ends when the
                     \*         application thread makes its next call)
    lp,              \* the loop under watch:
                     \*   armed   the loop is watched in this specification
                     \*   expired interval_expired as the loop last computed
                     \*           it; False again once last_flush_time is reset
                     \*   raised  a send_batch of the loop has raised
    sg               \* SIGTERM and the exit of the process:
                     \*   orig      the disposition before start(): "default",
                     \*             "ignore" or "handler" (a Python function)
                     \*   installed _sigterm_handler is the disposition
                     \*   pc        "none", "handler" (it runs), "handled"
                     \*   ran       the application's own handler has run
                     \*   alive     the process has not been terminated
                     \*   exiting   the interpreter runs its atexit hooks

qvars == <<policy, maxsize, q, dropped_count, lock>>
cvars == <<pt, nextId, dr>>
hvars == <<accepted, rejected, evicted, drained, watch, obs>>
tvars == <<max_retries, tpc, nevents, attempt, last_result, wait_seconds,
           requests, sleeps, answers, headers>>
svars == <<st, loops>>
lvars == <<lp, sg>>
wvars == <<max_batch_size, started, stop_event, flush_event,
           wk, closed, sentBatches, scen, svars, stp, lvars>>
vars == <<qvars, cvars, hvars, tvars, wvars>>

\* what the EventQueue operations leave alone
notQueue == <<tvars, wvars>>

\* ------------------------------------------------------- queue.Queue
\* queue.Queue.full(): qsize() >= maxsize (maxsize > 0)
MutFullOffByOne(qq) == Len(qq) > maxsize
QFull(qq) == Len(qq) >= maxsize

\* queue.Queue.put(block=True): waits while qsize() >= maxsize
MutPutNeverWaits(qq) == FALSE
QPutWaits(qq) == Len(qq) >= maxsize

\* queue.Queue.put_nowait / put: the item goes to the right end of the deque
MutPutLeft(qq, e) == <<e>> \o qq
QPut(qq, e) == Append(qq, e)

\* queue.Queue.get_nowait: popleft(); the item returned and the queue left
QGetItem(qq) == Head(qq)
MutGetRestKeeps(qq) == qq
MutGetRestNewest(qq) == SubSeq(qq, 1, Len(qq) - 1)
QGetRest(qq) == Tail(qq)

\* drain: items.append(<the event got>)
MutDrainForgets(its, e) == its
DrainAppend(its, e) == Append(its, e)

\* threading.RLock: free, or already held by the acquiring thread
MutPlainLock(t) == lock.owner = None
CanAcquire(t) == lock.owner = None \/ lock.owner = t
Acquire(t) == [owner |-> t, count |-> lock.count + 1]
Release == IF lock.count = 1 THEN [owner |-> None, count |-> 0]
           ELSE [lock EXCEPT !.count = lock.count - 1]

\* _on_drop: with self._lock: self._dropped_count += 1
MutOnDropTwice(d) == d + 2
MutOnDropNothing(d) == d
OnDropCount(d) == d + 1

\* ------------------------------------------------------------- history
NoPut == [pc |-> "idle", event |-> 0, result |-> None, dropped |-> 0]
NoDrain == [pc |-> "idle", items |-> <<>>, left |-> 0, n |-> 0]
NoObs == [q0 |-> <<>>, d0 |-> 0, intf |-> FALSE, full |-> FALSE,
          sawGet |-> FALSE, drops |-> 0]

InPut(p) == pt[p].pc \notin {"idle", "ret"}
InDrain(c) == dr[c].pc = "loop"
InCall(t) == IF t \in Producers THEN InPut(t) ELSE InDrain(t)

\* thread t changed the queue or the counter (get: by removing an event for a
\* drain): every other call that is in progress, or whose caller has not yet
\* looked at what it returned, saw it, and the snapshot such a call took is
\* of no further use
Watching(u) ==
    /\ watch
    /\ IF u \in Producers THEN pt[u].pc # "idle" ELSE dr[u].pc # "idle"
Seen(t, get) ==
    [u \in Threads |->
        IF u # t /\ Watching(u)
        THEN [obs[u] EXCEPT !.intf = TRUE, !.q0 = <<>>, !.d0 = 0,
                            !.sawGet = @ \/ (get /\ InCall(u))]
        ELSE obs[u]]


\* -------------------------------------------------------- HttpTransport
\* Durations are in tenths of a second.
Second == 10

RECURSIVE Pow2(_)
Pow2(k) == IF k = 0 THEN 1 ELSE 2 * Pow2(k - 1)

\* what the server can answer: an exception of session.post (no status
\* code: status_code is None), or a status
EXC == 0
Statuses == {EXC, 200, 204, 400, 401, 404, 429, 500, 503}

\* the headers of a 429 response, as _parse_rate_limit_header reads them:
\* each one absent, unparsable by float(), or a number v;
\* reset is X-RateLimit-Reset less time.time(), retry is Retry-After
Absent == [kind |-> "absent", v |-> 0]
BadHeader == [kind |-> "bad", v |-> 0]
Num(x) == [kind |-> "num", v |-> x]
ResetHeaders ==
    {Absent, BadHeader} \cup {Num(d * Second) : d \in {-5, 3, 60, 90}}
RetryHeaders ==
    {Absent, BadHeader} \cup {Num(d * Second) : d \in {0, 10, 120}}
NoHeaders == [reset |-> Absent, retry |-> Absent]

Max(a, b) == IF a >= b THEN a ELSE b

\* TransportResult(success, status_code, retryable, retry_after)
TransportResult(su, sc, re, ra) ==
    [success |-> su, status_code |-> sc, retryable |-> re, retry_after |-> ra]
NotAttempted == TransportResult(FALSE, EXC, FALSE, 0)

\* _parse_rate_limit_header: the wait a 429 response asks for
MutRetryAfterFirst(h) ==
    IF h.retry.kind # "absent"
    THEN IF h.retry.kind = "bad" THEN 5 * Second
         ELSE Max(1 * Second, h.retry.v)
    ELSE IF h.reset.kind # "absent"
    THEN IF h.reset.kind = "bad" THEN 5 * Second
         ELSE Max(1 * Second, Min(h.reset.v, 60 * Second))
    ELSE 5 * Second
ParseRateLimitHeader(h) ==
    IF h.reset.kind # "absent"
    THEN IF h.reset.kind = "bad" THEN 5 * Second
         ELSE Max(1 * Second, Min(h.reset.v, 60 * Second))
    ELSE IF h.retry.kind # "absent"
    THEN IF h.retry.kind = "bad" THEN 5 * Second
         ELSE Max(1 * Second, h.retry.v)
    ELSE 5 * Second

\* _do_request: the TransportResult of one HTTP attempt
MutOkRetried(status, h) ==
    IF status = EXC THEN TransportResult(FALSE, EXC, TRUE, 0)
    ELSE IF status = 429
    THEN TransportResult(FALSE, status, TRUE, ParseRateLimitHeader(h))
    ELSE IF status = 401 THEN TransportResult(FALSE, status, FALSE, 0)
    ELSE IF (200 <= status /\ status < 300) \/ (500 <= status /\ status < 600)
    THEN TransportResult(FALSE, status, TRUE, 0)
    ELSE TransportResult(FALSE, status, FALSE, 0)
MutClientErrorRetried(status, h) ==
    IF status = EXC THEN TransportResult(FALSE, EXC, TRUE, 0)
    ELSE IF 200 <= status /\ status < 300
    THEN TransportResult(TRUE, status, FALSE, 0)
    ELSE IF status = 401 THEN TransportResult(FALSE, status, FALSE, 0)
    ELSE IF status = 429
    THEN TransportResult(FALSE, status, TRUE, ParseRateLimitHeader(h))
    ELSE TransportResult(FALSE, status, TRUE, 0)
MutUnauthorizedRetried(status, h) ==
    IF status = EXC THEN TransportResult(FALSE, EXC, TRUE, 0)
    ELSE IF 200 <= status /\ status < 300
    THEN TransportResult(TRUE, status, FALSE, 0)
    ELSE IF status = 429
    THEN TransportResult(FALSE, status, TRUE, ParseRateLimitHeader(h))
    ELSE IF status = 401 \/ (500 <= status /\ status < 600)
    THEN TransportResult(FALSE, status, TRUE, 0)
    ELSE TransportResult(FALSE, status, FALSE, 0)
DoRequest(status, h) ==
    IF status = EXC THEN TransportResult(FALSE, EXC, TRUE, 0)
    ELSE IF 200 <= status /\ status < 300
    THEN TransportResult(TRUE, status, FALSE, 0)
    ELSE IF status = 401 THEN TransportResult(FALSE, status, FALSE, 0)
    ELSE IF status = 429
    THEN TransportResult(FALSE, status, TRUE, ParseRateLimitHeader(h))
    ELSE IF 500 <= status /\ status < 600
    THEN TransportResult(FALSE, status, TRUE, 0)
    ELSE TransportResult(FALSE, status, FALSE, 0)

\* _backoff_seconds: min(base + jitter, 30.0) with base = 2 ** attempt and
\* jitter = random.uniform(0, base * 0.2), every value the draw can give
MutBackoffUncapped(k) ==
    {Pow2(k) * Second + j : j \in 0..(2 * Pow2(k))}
BackoffSeconds(k) ==
    {Min(Pow2(k) * Second + j, 30 * Second) : j \in 0..(2 * Pow2(k))}

\* `while attempt <= self._max_retries`
MutLoopOneMore(a) == a <= max_retries + 1
MutLoopOneShort(a) == a < max_retries
LoopGoesOn(a) == a <= max_retries

InitTransport(R) ==
    /\ max_retries \in R
    /\ tpc = "idle"
    /\ nevents = 0
    /\ attempt = 0
    /\ last_result = NotAttempted
    /\ wait_seconds = 0
    /\ requests = 0
    /\ sleeps = 0
    /\ answers = {}
    /\ headers = NoHeaders

\* `if not events`
MutNeverEmpty(n) == FALSE
EmptyBatch(n) == n = 0

\* send_batch(events) is called: an empty batch returns at once
SendCall(n) ==
    /\ tpc = "idle"
    /\ nevents' = n
    /\ attempt' = 0
    /\ wait_seconds' = 0
    /\ requests' = 0
    /\ sleeps' = 0
    /\ answers' = {}
    /\ headers' = NoHeaders
    /\ IF EmptyBatch(n)
       THEN /\ last_result' = TransportResult(TRUE, EXC, FALSE, 0)
            /\ tpc' = "done"
       ELSE /\ last_result' = NotAttempted
            /\ tpc' = "loop"
    /\ UNCHANGED <<max_retries, qvars, cvars, hvars, wvars>>

\* one turn of the loop: the request, and the return or the choice of the wait
SendAttempt(status, h) ==
    /\ tpc = "loop"
    /\ LoopGoesOn(attempt)
    /\ LET r == DoRequest(status, h) IN
       /\ last_result' = r
       /\ requests' = requests + 1
       /\ answers' = answers \cup {status}
       /\ headers' = h
       /\ IF r.success \/ ~r.retryable
          THEN /\ tpc' = "done"
               /\ UNCHANGED wait_seconds
          ELSE /\ tpc' = "sleep"
               /\ IF r.retry_after # 0
                  THEN wait_seconds' = r.retry_after
                  ELSE wait_seconds' \in BackoffSeconds(attempt)
    /\ UNCHANGED <<max_retries, nevents, attempt, sleeps, qvars, cvars, hvars,
                   wvars>>

\* time.sleep(wait_seconds); attempt += 1
SendSleep ==
    /\ tpc = "sleep"
    /\ sleeps' = sleeps + 1
    /\ attempt' = attempt + 1
    /\ tpc' = "loop"
    /\ UNCHANGED <<max_retries, nevents, last_result, wait_seconds, requests,
                   answers, headers, qvars, cvars, hvars, wvars>>

\* the loop condition fails: return last_result
SendGiveUp ==
    /\ tpc = "loop"
    /\ ~LoopGoesOn(attempt)
    /\ tpc' = "done"
    /\ UNCHANGED <<max_retries, nevents, attempt, last_result, wait_seconds,
                   requests, sleeps, answers, headers, qvars, cvars, hvars,
                   wvars>>

\* the caller has the result; the transport can be called again
SendReturn ==
    /\ tpc = "done"
    /\ tpc' = "idle"
    /\ nevents' = 0
    /\ attempt' = 0
    /\ last_result' = NotAttempted
    /\ wait_seconds' = 0
    /\ requests' = 0
    /\ sleeps' = 0
    /\ answers' = {}
    /\ headers' = NoHeaders
    /\ UNCHANGED <<max_retries, qvars, cvars, hvars, wvars>>


\* ----------------------------------------------------------------- Init
InitQueue(P, S, W) ==
    /\ policy \in P
    /\ maxsize \in S
    /\ q = <<>>
    /\ dropped_count = 0
    /\ lock = [owner |-> None, count |-> 0]
    /\ pt = [p \in Producers |-> NoPut]
    /\ nextId = 1
    /\ dr = [c \in Drainers |-> NoDrain]
    /\ accepted = <<>>
    /\ rejected = {}
    /\ evicted = {}
    /\ drained = <<>>
    /\ watch = W
    /\ obs = [t \in Threads |-> NoObs]

\* no stop() call is under watch
NoStop == [stp EXCEPT !.on = FALSE, !.fr = FALSE, !.owed = {}, !.ret = FALSE]

\* the events of a batch
Events(b) == {b[i] : i \in 1..Len(b)}

\* a put() or a stop() begins, or the flush interval expires: the flush()
\* under watch no longer runs alone
Unwatch == [scen EXCEPT !.on = FALSE]

\* ------------------------------------------------------- EventQueue.put
\* put() returns r: an observed call is kept until its caller has looked at
\* what it returned
Ret(p, r) == IF watch THEN [pt[p] EXCEPT !.result = r, !.pc = "ret"] ELSE NoPut

\* put(event) is called: the branch is chosen by self._policy
PutCall(p) ==
    /\ pt[p].pc = "idle"
    /\ nextId <= MaxEvents
    /\ pt' = [pt EXCEPT ![p] =
                [NoPut EXCEPT !.event = nextId,
                              !.pc = CASE policy = DROP_NEWEST -> "dn_put"
                                       [] policy = DROP_OLDEST -> "do_lock"
                                       [] policy = BLOCK -> "bl_put"]]
    /\ nextId' = nextId + 1
    /\ obs' = IF watch
              THEN [obs EXCEPT ![p] = [NoObs EXCEPT !.q0 = q, !.d0 = dropped_count,
                                                    !.full = (Len(q) >= maxsize)]]
              ELSE obs
    /\ UNCHANGED <<qvars, dr, accepted, rejected, evicted, drained, watch>>
    /\ scen' = Unwatch
    /\ stp' = NoStop
    /\ UNCHANGED <<lvars, tvars, svars, max_batch_size, started, stop_event,
                   flush_event, wk, closed, sentBatches>>

\* DROP_NEWEST: self._q.put_nowait(event); return True / except queue.Full
DropNewestPut(p) ==
    /\ pt[p].pc = "dn_put"
    /\ IF ~QFull(q)
       THEN /\ q' = QPut(q, pt[p].event)
            /\ accepted' = Append(accepted, pt[p].event)
            /\ pt' = [pt EXCEPT ![p] = Ret(p, TRUE)]
            /\ obs' = Seen(p, FALSE)
            /\ UNCHANGED rejected
       ELSE /\ pt' = [pt EXCEPT ![p].pc = "dn_drop"]
            /\ rejected' = rejected \cup {pt[p].event}
            /\ UNCHANGED <<q, accepted, obs>>
    /\ UNCHANGED <<policy, maxsize, dropped_count, lock, nextId, dr,
                   evicted, drained, watch>>
    /\ UNCHANGED notQueue

\* DROP_NEWEST: self._on_drop(event, ...); return False
DropNewestOnDrop(p) ==
    /\ pt[p].pc = "dn_drop"
    /\ CanAcquire(p)
    /\ dropped_count' = OnDropCount(dropped_count)
    /\ pt' = [pt EXCEPT ![p] = Ret(p, FALSE)]
    /\ obs' = [Seen(p, FALSE) EXCEPT ![p].drops = IF watch THEN @ + 1 ELSE @]
    /\ UNCHANGED <<policy, maxsize, q, lock, nextId, dr,
                   accepted, rejected, evicted, drained, watch>>
    /\ UNCHANGED notQueue

\* DROP_OLDEST: with self._lock:
DropOldestLock(p) ==
    /\ pt[p].pc = "do_lock"
    /\ CanAcquire(p)
    /\ lock' = Acquire(p)
    /\ pt' = [pt EXCEPT ![p].pc = "do_put"]
    /\ UNCHANGED <<policy, maxsize, q, dropped_count, nextId, dr, hvars>>
    /\ UNCHANGED notQueue

\* DROP_OLDEST: self._q.put_nowait(event); return True (leaving the with
\* block releases the lock) / except queue.Full
DropOldestPut(p) ==
    /\ pt[p].pc = "do_put"
    /\ IF ~QFull(q)
       THEN /\ q' = QPut(q, pt[p].event)
            /\ accepted' = Append(accepted, pt[p].event)
            /\ pt' = [pt EXCEPT ![p] = Ret(p, TRUE)]
            /\ lock' = Release
            /\ obs' = Seen(p, FALSE)
       ELSE /\ pt' = [pt EXCEPT ![p].pc = "do_get"]
            /\ UNCHANGED <<q, accepted, lock, obs>>
    /\ UNCHANGED <<policy, maxsize, dropped_count, nextId, dr,
                   rejected, evicted, drained, watch>>
    /\ UNCHANGED notQueue

\* DROP_OLDEST: dropped = self._q.get_nowait() / except queue.Empty: pass
DropOldestGet(p) ==
    /\ pt[p].pc = "do_get"
    /\ IF q # <<>>
       THEN /\ pt' = [pt EXCEPT ![p].dropped = QGetItem(q), ![p].pc = "do_drop"]
            /\ q' = QGetRest(q)
            /\ evicted' = evicted \cup {QGetItem(q)}
            /\ obs' = Seen(p, FALSE)
       ELSE /\ pt' = [pt EXCEPT ![p].pc = "do_put"]
            /\ UNCHANGED <<q, evicted, obs>>
    /\ UNCHANGED <<policy, maxsize, dropped_count, lock, nextId, dr,
                   accepted, rejected, drained, watch>>
    /\ UNCHANGED notQueue

\* DROP_OLDEST: self._on_drop(dropped, ...), re-entering the lock it holds
DropOldestOnDrop(p) ==
    /\ pt[p].pc = "do_drop"
    /\ CanAcquire(p)
    /\ dropped_count' = OnDropCount(dropped_count)
    /\ pt' = [pt EXCEPT ![p].pc = "do_put"]
    /\ obs' = [Seen(p, FALSE) EXCEPT ![p].drops = IF watch THEN @ + 1 ELSE @]
    /\ UNCHANGED <<policy, maxsize, q, lock, nextId, dr,
                   accepted, rejected, evicted, drained, watch>>
    /\ UNCHANGED notQueue

\* BLOCK: self._q.put(event) waits on not_full; return True
BlockPut(p) ==
    /\ pt[p].pc = "bl_put"
    /\ ~QPutWaits(q)
    /\ q' = QPut(q, pt[p].event)
    /\ accepted' = Append(accepted, pt[p].event)
    /\ pt' = [pt EXCEPT ![p] = Ret(p, TRUE)]
    /\ obs' = Seen(p, FALSE)
    /\ UNCHANGED <<policy, maxsize, dropped_count, lock, nextId, dr,
                   rejected, evicted, drained, watch>>
    /\ UNCHANGED notQueue

\* the caller has the return value and may call again
PutReturn(p) ==
    /\ pt[p].pc = "ret"
    /\ pt' = [pt EXCEPT ![p] = NoPut]
    /\ obs' = [obs EXCEPT ![p] = NoObs]
    /\ UNCHANGED <<qvars, nextId, dr, accepted, rejected, evicted, drained, watch>>
    /\ UNCHANGED notQueue

\* ----------------------------------------------------- EventQueue.drain
\* drain(max_items) is called: items = []
Draining(n) == [pc |-> "loop", items |-> <<>>, left |-> n, n |-> n]

DrainCall(c, n) ==
    /\ dr[c].pc = "idle"
    /\ dr' = [dr EXCEPT ![c] = Draining(n)]
    /\ obs' = [obs EXCEPT ![c] = [NoObs EXCEPT !.q0 = q, !.d0 = dropped_count]]
    /\ UNCHANGED <<qvars, pt, nextId, accepted, rejected, evicted, drained, watch>>
    /\ UNCHANGED notQueue

\* one iteration of `for _ in range(max_items)`:
\* items.append(self._q.get_nowait()) / except queue.Empty: break;
\* the loop ends, and drain returns items, when the range is used up
DrainStep(c) ==
    /\ dr[c].pc = "loop"
    /\ IF q # <<>>
       THEN /\ q' = QGetRest(q)
            /\ dr' = [dr EXCEPT ![c].items = DrainAppend(@, QGetItem(q)),
                                ![c].left = @ - 1,
                                ![c].pc = IF dr[c].left = 1 THEN "ret" ELSE "loop"]
            /\ drained' = IF watch /\ dr[c].left = 1
                          THEN drained \o DrainAppend(dr[c].items, QGetItem(q))
                          ELSE drained
            /\ obs' = Seen(c, TRUE)
       ELSE /\ dr' = [dr EXCEPT ![c].pc = "ret"]
            /\ drained' = IF watch THEN drained \o dr[c].items ELSE drained
            /\ UNCHANGED <<q, obs>>
    /\ UNCHANGED <<policy, maxsize, dropped_count, lock, pt, nextId,
                   accepted, rejected, evicted, watch>>
    /\ UNCHANGED notQueue

\* the caller has the batch and may call again
DrainReturn(c) ==
    /\ dr[c].pc = "ret"
    /\ dr' = [dr EXCEPT ![c] = NoDrain]
    /\ obs' = [obs EXCEPT ![c] = NoObs]
    /\ UNCHANGED <<qvars, pt, nextId, accepted, rejected, evicted, drained, watch>>
    /\ UNCHANGED notQueue

\* ----------------------------------------------------- BackgroundWorker
NoWork == [pc |-> "none", batch |-> <<>>, flush_remaining |-> FALSE]

\* where a thread goes on when its _do_flush call returns: the loop records
\* last_flush_time; the helper sets done_event ("done", for the flush() call
\* that waits on it) and ends; stop() closes the transport
MutHelperSilent(t) ==
    CASE t = "bg" -> "while"
      [] t = "h1" -> "none"
      [] t = "main" -> "close"
      [] t = "sig" -> "chain"
AfterFlush(t) ==
    CASE t = "bg" -> "while"
      [] t = "h1" -> IF wk["main"].pc = "wait_done" THEN "done" ELSE "none"
      [] t = "main" -> "close"
      [] t = "sig" -> "chain"

InFlush(t) == wk[t].pc \in {"f_drain", "f_draining", "f_send"}

InitWorker(B, A, L, O) ==
    /\ max_batch_size \in B
    /\ started = FALSE
    /\ stop_event = FALSE
    /\ flush_event = FALSE
    /\ wk = [t \in WorkerThreads |-> NoWork]
    /\ closed = 0
    /\ sentBatches = <<>>
    /\ scen = [on |-> FALSE, n |-> 0]
    /\ st = [c \in Starters |-> "none"]
    /\ loops = 0
    /\ stp = [armed |-> A, on |-> FALSE, fr |-> FALSE, owed |-> {}, ret |-> FALSE]
    /\ lp = [armed |-> L, expired |-> FALSE, raised |-> FALSE]
    /\ \E o \in O : sg = [orig |-> o, installed |-> FALSE, pc |-> "none",
                          ran |-> FALSE, alive |-> TRUE, exiting |-> FALSE]

\* start: `if self._started: return`, read under self._lock
MutStartedUnchecked == FALSE
AlreadyStarted == started

\* _register_signal_handlers, on the main thread: signal.signal makes
\* _sigterm_handler the disposition of SIGTERM
Install == [sg EXCEPT !.installed = TRUE]

\* start(), called on the main thread while no other start() call is in
\* progress: under self._lock, return if started; else start the loop
\* thread and register the handler
Start ==
    /\ wk["main"].pc = "none"
    /\ wk["sig"].pc = "none"
    /\ \A c \in Starters : st[c] = "none"
    /\ IF AlreadyStarted
       THEN UNCHANGED <<started, wk, loops, sg>>
       ELSE /\ started' = TRUE
            /\ wk' = [wk EXCEPT !["bg"].pc = "while"]
            /\ loops' = loops + 1
            /\ sg' = Install
    /\ stp' = NoStop
    /\ UNCHANGED <<lp, st, max_batch_size, stop_event, flush_event,
                   closed, sentBatches, scen, qvars, cvars, hvars, tvars>>

\* start() called by racing threads, in its steps. The locked block:
\* `if self._started: return`, `self._started = True`
StartEnter(c) ==
    /\ st[c] = "none"
    /\ IF AlreadyStarted
       THEN /\ st' = [st EXCEPT ![c] = "noop"]
            /\ UNCHANGED started
       ELSE /\ st' = [st EXCEPT ![c] = "thread"]
            /\ started' = TRUE
    /\ UNCHANGED <<lvars, loops, stp, max_batch_size, stop_event, flush_event, wk,
                   closed, sentBatches, scen, qvars, cvars, hvars, tvars>>

\* start, past the lock: the thread is created and started, then
\* atexit.register and the signal handler; "s1" is the main thread, and off
\* the main thread signal.signal raises ValueError, which is passed over
StartThread(c) ==
    /\ st[c] = "thread"
    /\ st' = [st EXCEPT ![c] = "none"]
    /\ loops' = loops + 1
    /\ wk' = [wk EXCEPT !["bg"].pc = "while"]
    /\ sg' = IF c = "s1" THEN Install ELSE sg
    /\ UNCHANGED <<lp, stp, max_batch_size, started, stop_event, flush_event,
                   closed, sentBatches, scen, qvars, cvars, hvars, tvars>>

\* start: the early return of a call that found the worker started
StartReturn(c) ==
    /\ st[c] = "noop"
    /\ st' = [st EXCEPT ![c] = "none"]
    /\ UNCHANGED <<lvars, loops, stp, max_batch_size, started, stop_event, flush_event,
                   wk, closed, sentBatches, scen, qvars, cvars, hvars, tvars>>

\* a loop that never looks at the stop signal
MutRunWhileDeaf ==
    /\ wk["bg"].pc = "while"
    /\ wk' = [wk EXCEPT !["bg"].pc = "decide"]
    /\ UNCHANGED <<lvars, svars, stp, max_batch_size, started, stop_event,
                   flush_event, closed, sentBatches, scen,
                   qvars, cvars, hvars, tvars>>

\* _run: while not self._stop_event.is_set()
RunWhile ==
    /\ wk["bg"].pc = "while"
    /\ wk' = [wk EXCEPT !["bg"].pc = IF stop_event THEN "exit" ELSE "decide"]
    /\ UNCHANGED <<lvars, svars, stp, max_batch_size, started, stop_event,
                   flush_event, closed, sentBatches, scen,
                   qvars, cvars, hvars, tvars>>

\* self._queue.size() >= self._max_batch_size
MutBatchReadyStrict == Len(q) > max_batch_size
BatchReady == Len(q) >= max_batch_size

\* a loop that flushes on a request or a full batch only
MutRunDecideNoInterval(interval_expired) ==
    /\ wk["bg"].pc = "decide"
    /\ scen' = IF interval_expired THEN Unwatch ELSE scen
    /\ lp' = IF lp.armed THEN [lp EXCEPT !.expired = interval_expired] ELSE lp
    /\ IF flush_event \/ BatchReady
       THEN /\ flush_event' = FALSE
            /\ wk' = [wk EXCEPT !["bg"].pc = "f_drain"]
       ELSE /\ wk' = [wk EXCEPT !["bg"].pc = "while"]
            /\ UNCHANGED flush_event
    /\ UNCHANGED <<sg, svars, stp, max_batch_size, started, stop_event, closed,
                   sentBatches, qvars, cvars, hvars, tvars>>

\* _run: the three conditions (interval_expired is what the clock makes it);
\* flush_event.clear() and _do_flush(), or sleep
RunDecide(interval_expired) ==
    /\ wk["bg"].pc = "decide"
    /\ scen' = IF interval_expired THEN Unwatch ELSE scen
    /\ lp' = IF lp.armed THEN [lp EXCEPT !.expired = interval_expired] ELSE lp
    /\ IF interval_expired \/ flush_event \/ BatchReady
       THEN /\ flush_event' = FALSE
            /\ wk' = [wk EXCEPT !["bg"].pc = "f_drain"]
       ELSE /\ wk' = [wk EXCEPT !["bg"].pc = "while"]
            /\ UNCHANGED flush_event
    /\ UNCHANGED <<sg, svars, stp, max_batch_size, started, stop_event, closed,
                   sentBatches, qvars, cvars, hvars, tvars>>

\* _run: the cycle of the loop is over, send_batch having raised or not:
\* last_flush_time = time.monotonic()
LoopFlushed(raised) ==
    IF lp.armed
    THEN [lp EXCEPT !.expired = FALSE, !.raised = @ \/ raised]
    ELSE lp

\* _do_flush: batch = self._queue.drain(self._max_batch_size)
FlushDrain(t) ==
    /\ wk[t].pc = "f_drain"
    /\ dr' = [dr EXCEPT ![t] = Draining(max_batch_size)]
    /\ wk' = [wk EXCEPT ![t].pc = "f_draining"]
    /\ UNCHANGED <<lvars, svars, stp, max_batch_size, started, stop_event,
                   flush_event, closed, sentBatches, scen,
                   qvars, pt, nextId, hvars, tvars>>

\* _do_flush: drain has returned; `if not batch: break`, else
\* self._transport.send_batch(batch) begins
FlushBatch(t) ==
    /\ wk[t].pc = "f_draining"
    /\ dr[t].pc = "ret"
    /\ dr' = [dr EXCEPT ![t] = NoDrain]
    /\ IF dr[t].items = <<>>
       THEN /\ wk' = [wk EXCEPT ![t].pc = AfterFlush(t)]
            /\ lp' = IF t = "bg" THEN LoopFlushed(FALSE) ELSE lp
            /\ UNCHANGED <<sentBatches, stp>>
       ELSE /\ wk' = [wk EXCEPT ![t].pc = "f_send", ![t].batch = dr[t].items]
            /\ sentBatches' = Append(sentBatches, dr[t].items)
            /\ stp' = IF stp.on
                      THEN [stp EXCEPT !.owed = @ \ Events(dr[t].items)]
                      ELSE stp
            /\ UNCHANGED lp
    /\ UNCHANGED <<sg, svars, max_batch_size, started, stop_event,
                   flush_event, closed, scen, qvars, pt, nextId, hvars, tvars>>

\* `if len(batch) < self._max_batch_size: break`
LastBatch(b) == Len(b) < max_batch_size

\* a cycle whose exception ends the thread that ran it
MutFlushSentKills(t, raised) ==
    /\ wk[t].pc = "f_send"
    /\ wk' = [wk EXCEPT ![t].batch = <<>>,
                        ![t].pc = IF raised
                                  THEN (IF t = "bg" THEN "exit" ELSE "raised")
                                  ELSE IF LastBatch(wk[t].batch)
                                  THEN AfterFlush(t) ELSE "f_drain"]
    /\ scen' = IF raised THEN Unwatch ELSE scen
    /\ stp' = IF raised THEN NoStop ELSE stp
    /\ lp' = IF t = "bg" /\ (raised \/ LastBatch(wk[t].batch))
             THEN LoopFlushed(raised) ELSE lp
    /\ UNCHANGED <<sg, svars, max_batch_size, started, stop_event,
                   flush_event, closed, sentBatches,
                   qvars, cvars, hvars, tvars>>

\* a cycle that gave the batch back to the buffer when send_batch raised
MutFlushSentRequeues(t, raised) ==
    /\ wk[t].pc = "f_send"
    /\ wk' = [wk EXCEPT ![t].batch = <<>>,
                        ![t].pc = IF raised \/ LastBatch(wk[t].batch)
                                  THEN AfterFlush(t) ELSE "f_drain"]
    /\ q' = IF raised THEN wk[t].batch \o q ELSE q
    /\ scen' = IF raised THEN Unwatch ELSE scen
    /\ stp' = IF raised THEN NoStop ELSE stp
    /\ lp' = IF t = "bg" /\ (raised \/ LastBatch(wk[t].batch))
             THEN LoopFlushed(raised) ELSE lp
    /\ UNCHANGED <<sg, svars, max_batch_size, started, stop_event,
                   flush_event, closed, sentBatches,
                   policy, maxsize, dropped_count, lock, cvars, hvars, tvars>>

\* _do_flush: send_batch has returned, or raised (the except clause ends the
\* cycle); a full batch makes the loop drain again
FlushSent(t, raised) ==
    /\ wk[t].pc = "f_send"
    /\ wk' = [wk EXCEPT ![t].batch = <<>>,
                        ![t].pc = IF raised \/ LastBatch(wk[t].batch)
                                  THEN AfterFlush(t) ELSE "f_drain"]
    /\ scen' = IF raised THEN Unwatch ELSE scen
    /\ stp' = IF raised THEN NoStop ELSE stp
    /\ lp' = IF t = "bg" /\ (raised \/ LastBatch(wk[t].batch))
             THEN LoopFlushed(raised) ELSE lp
    /\ UNCHANGED <<sg, svars, max_batch_size, started, stop_event,
                   flush_event, closed, sentBatches,
                   qvars, cvars, hvars, tvars>>

\* flush(timeout): return if not started; else start the helper thread and
\* wait on done_event
Flush ==
    /\ wk["main"].pc = "none"
    /\ wk["h1"].pc = "none"
    /\ IF ~started
       THEN UNCHANGED <<wk, scen>>
       ELSE /\ wk' = [wk EXCEPT !["h1"].pc = "f_drain", !["main"].pc = "wait_done"]
            /\ scen' = [on |-> /\ ~stop_event
                               /\ wk["bg"].pc \in {"while", "decide"}
                               /\ sentBatches = <<>>
                               /\ \A p \in Producers : pt[p].pc = "idle",
                        n |-> Len(q)]
    /\ stp' = NoStop
    /\ UNCHANGED <<lvars, svars, max_batch_size, started, stop_event,
                   flush_event, closed, sentBatches, qvars, cvars, hvars, tvars>>

\* flush: done_event.wait(timeout) returns, done_event being set or the
\* timeout having passed
FlushReturn(timed_out) ==
    /\ wk["main"].pc = "wait_done"
    /\ timed_out \/ wk["h1"].pc = "done"
    /\ wk' = [wk EXCEPT !["main"].pc = "none",
                        !["h1"].pc = IF @ = "done" THEN "none" ELSE @]
    /\ UNCHANGED <<lvars, svars, stp, max_batch_size, started, stop_event,
                   flush_event, closed, sentBatches, scen,
                   qvars, cvars, hvars, tvars>>

\* self._thread and self._thread.is_alive()
LoopAlive == wk["bg"].pc \notin {"none", "exit"}

\* stop(flush_remaining, timeout): self._stop_event.set(), then the join
StopCall(flush_remaining) ==
    /\ wk["main"].pc = "none"
    /\ closed < MaxStops
    /\ stop_event' = TRUE
    /\ wk' = [wk EXCEPT !["main"].pc = "join",
                        !["main"].flush_remaining = flush_remaining]
    /\ scen' = Unwatch
    /\ stp' = IF stp.armed /\ \A p \in Producers : pt[p].pc = "idle"
              THEN [stp EXCEPT !.on = TRUE, !.fr = flush_remaining,
                               !.owed = Events(q), !.ret = FALSE]
              ELSE NoStop
    /\ UNCHANGED <<lvars, svars, max_batch_size, started, flush_event, closed,
                   sentBatches, qvars, cvars, hvars, tvars>>

\* stop: self._thread.join(timeout) returns, the loop having ended or the
\* timeout having passed (no join when the thread is not alive); then
\* `if flush_remaining: self._do_flush()`
StopJoined(timed_out) ==
    /\ wk["main"].pc = "join"
    /\ timed_out \/ ~LoopAlive
    /\ wk' = [wk EXCEPT !["main"].pc = IF wk["main"].flush_remaining
                                       THEN "f_drain" ELSE "close"]
    /\ UNCHANGED <<lvars, svars, stp, max_batch_size, started, stop_event,
                   flush_event, closed, sentBatches, scen,
                   qvars, cvars, hvars, tvars>>

\* stop: self._transport.close()
StopClose ==
    /\ wk["main"].pc = "close"
    /\ closed' = closed + 1
    /\ wk' = [wk EXCEPT !["main"] = NoWork]
    /\ stp' = IF stp.on THEN [stp EXCEPT !.ret = TRUE] ELSE stp
    /\ UNCHANGED <<lvars, svars, max_batch_size, started, stop_event,
                   flush_event, sentBatches, scen, qvars, cvars, hvars, tvars>>

\* ------------------------------------------------- SIGTERM and atexit
\* callable(original_sigterm): a Python function is, signal.SIG_DFL and
\* signal.SIG_IGN are not
Callable(o) == o = "handler"

\* what a disposition does with the signal when it is run
Disposed(o) ==
    [sg EXCEPT !.pc = "handled",
               !.ran = @ \/ (o = "handler"),
               !.alive = @ /\ (o # "default")]

\* SIGTERM is delivered (the main thread being between two calls): with
\* _sigterm_handler installed it runs, beginning with self._do_flush();
\* before start() the disposition of the application is in force
Sigterm ==
    /\ sg.alive /\ sg.pc = "none"
    /\ wk["main"].pc = "none"
    /\ IF sg.installed
       THEN /\ sg' = [sg EXCEPT !.pc = "handler"]
            /\ wk' = [wk EXCEPT !["sig"].pc = "f_drain"]
       ELSE /\ sg' = Disposed(sg.orig)
            /\ UNCHANGED wk
    /\ scen' = Unwatch
    /\ stp' = NoStop
    /\ UNCHANGED <<lp, svars, max_batch_size, started, stop_event,
                   flush_event, closed, sentBatches, qvars, cvars, hvars, tvars>>

\* _sigterm_handler after its flush:
\* `if callable(original_sigterm): original_sigterm(signum, frame)`
SigChain ==
    /\ wk["sig"].pc = "chain"
    /\ wk' = [wk EXCEPT !["sig"] = NoWork]
    /\ sg' = IF Callable(sg.orig) THEN Disposed(sg.orig)
             ELSE [sg EXCEPT !.pc = "handled"]
    /\ UNCHANGED <<lp, svars, stp, max_batch_size, started, stop_event,
                   flush_event, closed, sentBatches, scen,
                   qvars, cvars, hvars, tvars>>

\* the interpreter exits and runs the hook start() registered:
\* _shutdown calls self.stop(flush_remaining=True, timeout=10.0)
Shutdown ==
    /\ sg.alive /\ ~sg.exiting
    /\ started
    /\ wk["main"].pc = "none" /\ wk["sig"].pc = "none"
    /\ sg' = [sg EXCEPT !.exiting = TRUE]
    /\ stop_event' = TRUE
    /\ wk' = [wk EXCEPT !["main"].pc = "join",
                        !["main"].flush_remaining = TRUE]
    /\ scen' = Unwatch
    /\ stp' = NoStop
    /\ UNCHANGED <<lp, svars, max_batch_size, started, flush_event, closed,
                   sentBatches, qvars, cvars, hvars, tvars>>

\* ----------------------------------------------------------------- Spec
Next ==
    \/ \E p \in Producers : PutCall(p)
    \/ \E p \in Producers : DropNewestPut(p)
    \/ \E p \in Producers : DropNewestOnDrop(p)
    \/ \E p \in Producers : DropOldestLock(p)
    \/ \E p \in Producers : DropOldestPut(p)
    \/ \E p \in Producers : DropOldestGet(p)
    \/ \E p \in Producers : DropOldestOnDrop(p)
    \/ \E p \in Producers : BlockPut(p)
    \/ \E p \in Producers : PutReturn(p)
    \/ \E c \in Consumers, n \in 1..MaxDrain : DrainCall(c, n)
    \/ \E c \in Consumers : DrainStep(c)
    \/ \E c \in Consumers : DrainReturn(c)

Init ==
    /\ InitQueue(OverflowPolicy, 1..MaxCap, TRUE)
    /\ InitTransport({DEFAULT_MAX_RETRIES})
    /\ InitWorker({DEFAULT_MAX_BATCH_SIZE}, FALSE, FALSE, {"default"})

Spec == Init /\ [][Next]_vars

\* ------------------------------------------------------ SpecDropOldest
\* DROP_OLDEST only, the producers and the consumer as threads that the
\* interpreter keeps scheduling: a thread whose next step can be taken
\* takes it in the end
InitO ==
    /\ InitQueue({DROP_OLDEST}, 1..MaxCap, FALSE)
    /\ InitTransport({DEFAULT_MAX_RETRIES})
    /\ InitWorker({DEFAULT_MAX_BATCH_SIZE}, FALSE, FALSE, {"default"})

PutStep(p) ==
    \/ DropOldestLock(p)
    \/ DropOldestPut(p)
    \/ DropOldestGet(p)
    \/ DropOldestOnDrop(p)

NextO ==
    \/ \E p \in Producers : PutCall(p)
    \/ \E p \in Producers : PutStep(p)
    \/ \E c \in Consumers, n \in 1..MaxDrain : DrainCall(c, n)
    \/ \E c \in Consumers : DrainStep(c)
    \/ \E c \in Consumers : DrainReturn(c)

SpecDropOldest ==
    /\ InitO
    /\ [][NextO]_vars
    /\ \A p \in Producers : WF_vars(PutStep(p))
    /\ \A c \in Consumers : WF_vars(DrainStep(c) \/ DrainReturn(c))

\* ------------------------------------------------------- SpecTransport
InitT ==
    /\ InitQueue({DROP_NEWEST}, {DEFAULT_QUEUE_SIZE}, FALSE)
    /\ InitTransport(0..MaxRetries)
    /\ InitWorker({DEFAULT_MAX_BATCH_SIZE}, FALSE, FALSE, {"default"})

NextT ==
    \/ \E n \in 0..1 : SendCall(n)
    \/ \E status \in Statuses \ {429} : SendAttempt(status, NoHeaders)
    \/ \E a \in ResetHeaders, b \in RetryHeaders :
          SendAttempt(429, [reset |-> a, retry |-> b])
    \/ SendSleep
    \/ SendGiveUp
    \/ SendReturn

SpecTransport == InitT /\ [][NextT]_vars

\* the next step of a send_batch call in progress: session.post returns
\* or raises (it has a timeout), time.sleep returns, the loop ends
SendStep ==
    \/ \E status \in Statuses \ {429} : SendAttempt(status, NoHeaders)
    \/ \E a \in ResetHeaders, b \in RetryHeaders :
          SendAttempt(429, [reset |-> a, retry |-> b])
    \/ SendSleep
    \/ SendGiveUp

\* ---------------------------------------------------------- SpecWorker
\* one producer; the application thread "main" calls start, flush and stop
Feeder == {"p1"}

InitW ==
    /\ InitQueue(OverflowPolicy, 1..MaxCap, FALSE)
    /\ InitTransport({DEFAULT_MAX_RETRIES})
    /\ InitWorker(1..MaxBatch, FALSE, FALSE, {"default"})

NextW ==
    \/ \E p \in Feeder : nextId <= MaxFed /\ PutCall(p)
    \/ \E p \in Feeder : DropNewestPut(p)
    \/ \E p \in Feeder : DropNewestOnDrop(p)
    \/ \E p \in Feeder : DropOldestLock(p)
    \/ \E p \in Feeder : DropOldestPut(p)
    \/ \E p \in Feeder : DropOldestGet(p)
    \/ \E p \in Feeder : DropOldestOnDrop(p)
    \/ \E p \in Feeder : BlockPut(p)
    \/ \E t \in WorkerThreads : DrainStep(t)
    \/ Start
    \/ RunWhile
    \/ \E interval_expired \in BOOLEAN : RunDecide(interval_expired)
    \/ \E t \in WorkerThreads : FlushDrain(t)
    \/ \E t \in WorkerThreads : FlushBatch(t)
    \/ \E t \in WorkerThreads, raised \in BOOLEAN : FlushSent(t, raised)
    \/ Flush
    \/ \E timed_out \in BOOLEAN : FlushReturn(timed_out)
    \/ \E flush_remaining \in BOOLEAN : StopCall(flush_remaining)
    \/ \E timed_out \in BOOLEAN : StopJoined(timed_out)
    \/ StopClose

SpecWorker == InitW /\ [][NextW]_vars

\* ------------------------------------------------------------ SpecLoop
\* the loop under watch, with one producer (DROP_NEWEST) and stop() calls;
\* the loop thread and the thread inside stop() are scheduled: each takes
\* its next step in the end, a join ends (by the loop's end or the timeout)
\* and every send_batch returns or raises
InitLoop ==
    /\ InitQueue({DROP_NEWEST}, 1..MaxCap, FALSE)
    /\ InitTransport({DEFAULT_MAX_RETRIES})
    /\ InitWorker(1..MaxBatch, FALSE, TRUE, {"default"})

CycleStep(t) ==
    \/ FlushDrain(t)
    \/ DrainStep(t)
    \/ FlushBatch(t)
    \/ \E raised \in BOOLEAN : FlushSent(t, raised)

LoopStep ==
    \/ RunWhile
    \/ \E interval_expired \in BOOLEAN : RunDecide(interval_expired)
    \/ CycleStep("bg")

StopStep ==
    \/ \E timed_out \in BOOLEAN : StopJoined(timed_out)
    \/ CycleStep("main")
    \/ StopClose

NextL ==
    \/ \E p \in Feeder : nextId <= MaxFed /\ PutCall(p)
    \/ \E p \in Feeder : DropNewestPut(p)
    \/ \E p \in Feeder : DropNewestOnDrop(p)
    \/ Start
    \/ LoopStep
    \/ \E flush_remaining \in BOOLEAN : StopCall(flush_remaining)
    \/ StopStep

SpecLoop ==
    /\ InitLoop
    /\ [][NextL]_vars
    /\ WF_vars(LoopStep)
    /\ WF_vars(StopStep)

\* --------------------------------------------------------- SpecHandoff
\* a started worker that is never stopped and never asked to flush, one
\* producer under each policy. The loop thread is scheduled; every pass
\* that does not flush sleeps at least 5 ms and leaves last_flush_time as it
\* is, so after finitely many such passes elapsed >= flush_interval: the
\* check with the interval expired is taken in the end
NextH ==
    \/ \E p \in Feeder : nextId <= MaxFed /\ PutCall(p)
    \/ \E p \in Feeder : DropNewestPut(p)
    \/ \E p \in Feeder : DropNewestOnDrop(p)
    \/ \E p \in Feeder : DropOldestLock(p)
    \/ \E p \in Feeder : DropOldestPut(p)
    \/ \E p \in Feeder : DropOldestGet(p)
    \/ \E p \in Feeder : DropOldestOnDrop(p)
    \/ \E p \in Feeder : BlockPut(p)
    \/ Start
    \/ LoopStep

SpecHandoff ==
    /\ InitW
    /\ [][NextH]_vars
    /\ WF_vars(LoopStep)
    /\ SF_vars(RunDecide(TRUE))

\* ----------------------------------------------------------- SpecCycle
\* the three callers of _do_flush at once: the loop, the helper threads of
\* flush() calls and one stop() call; one producer (DROP_NEWEST)
NextC ==
    \/ \E p \in Feeder : nextId <= MaxFed /\ PutCall(p)
    \/ \E p \in Feeder : DropNewestPut(p)
    \/ \E p \in Feeder : DropNewestOnDrop(p)
    \/ Start
    \/ LoopStep
    \/ Flush
    \/ CycleStep("h1")
    \/ \E timed_out \in BOOLEAN : FlushReturn(timed_out)
    \/ \E flush_remaining \in BOOLEAN : closed = 0 /\ StopCall(flush_remaining)
    \/ StopStep

SpecCycle == InitLoop /\ [][NextC]_vars

\* ---------------------------------------------------------- SpecSignal
\* a process that starts the worker on its main thread, with each of the
\* dispositions SIGTERM can have had before; one producer; SIGTERM is
\* delivered once, and the process may exit
InitSig ==
    /\ InitQueue({DROP_NEWEST}, 1..MaxCap, FALSE)
    /\ InitTransport({DEFAULT_MAX_RETRIES})
    /\ InitWorker(1..MaxBatch, FALSE, FALSE, {"default", "ignore", "handler"})

NextSig ==
    \/ \E p \in Feeder : sg.alive /\ nextId <= MaxFed /\ PutCall(p)
    \/ \E p \in Feeder : sg.alive /\ DropNewestPut(p)
    \/ \E p \in Feeder : sg.alive /\ DropNewestOnDrop(p)
    \/ sg.alive /\ ~sg.exiting /\ Start
    \/ sg.alive /\ LoopStep
    \/ Sigterm
    \/ sg.alive /\ CycleStep("sig")
    \/ sg.alive /\ SigChain
    \/ Shutdown
    \/ sg.alive /\ StopStep

SpecSignal == InitSig /\ [][NextSig]_vars

\* ------------------------------------------------------------ SpecStop
\* as SpecWorker, with the stop() calls under watch
InitStop ==
    /\ InitQueue(OverflowPolicy, 1..MaxCap, FALSE)
    /\ InitTransport({DEFAULT_MAX_RETRIES})
    /\ InitWorker(1..MaxBatch, TRUE, FALSE, {"default"})

SpecStop == InitStop /\ [][NextW]_vars

\* ---------------------------------------------------------- SpecFaults
\* put: an internal step raises an unexpected exception; the whole body is
\* inside `try`, the `with` statement gives the lock back, and
\* `except Exception` leads to `return False`
PutFails(p) ==
    /\ InPut(p)
    /\ lock' = IF lock.owner = p THEN [owner |-> None, count |-> 0] ELSE lock
    /\ pt' = [pt EXCEPT ![p] = Ret(p, FALSE)]
    /\ UNCHANGED <<policy, maxsize, q, dropped_count, nextId, dr, hvars>>
    /\ UNCHANGED notQueue

\* capture_error / capture_message: None when the client is not started;
\* _build_event and put are inside `try`, and `except Exception` returns
\* None; else the event is put and its id returned
Capture(p, build_fails) ==
    /\ pt[p].pc = "idle"
    /\ IF ~started \/ build_fails
       THEN UNCHANGED vars
       ELSE PutCall(p)

\* flush: threading.Thread(...).start() raises RuntimeError (no thread can
\* be started: the limit is reached, or the interpreter is shutting down);
\* no `try` encloses it, in BackgroundWorker.flush or in LogfixClient.flush
FlushThreadFails ==
    /\ wk["main"].pc = "none"
    /\ started
    /\ wk' = [wk EXCEPT !["main"].pc = "raised"]
    /\ UNCHANGED <<lvars, svars, stp, max_batch_size, started, stop_event,
                   flush_event, closed, sentBatches, scen,
                   qvars, cvars, hvars, tvars>>

\* the application goes on after the exception
MainCatches ==
    /\ wk["main"].pc = "raised"
    /\ wk' = [wk EXCEPT !["main"].pc = "none"]
    /\ UNCHANGED <<lvars, svars, stp, max_batch_size, started, stop_event,
                   flush_event, closed, sentBatches, scen,
                   qvars, cvars, hvars, tvars>>

InitF ==
    /\ InitQueue(OverflowPolicy, {1}, FALSE)
    /\ InitTransport({DEFAULT_MAX_RETRIES})
    /\ InitWorker({1}, FALSE, FALSE, {"default"})

NextF ==
    \/ NextW
    \/ \E p \in Feeder : PutFails(p)
    \/ \E p \in Feeder, build_fails \in BOOLEAN :
          nextId <= MaxFed /\ Capture(p, build_fails)
    \/ FlushThreadFails
    \/ MainCatches

SpecFaults == InitF /\ [][NextF]_vars

\* ----------------------------------------------------------- SpecStart
\* start() called by two racing threads, over and over; one producer, and
\* the loop once it runs
NextS ==
    \/ \E p \in Feeder : nextId <= MaxFed /\ PutCall(p)
    \/ \E p \in Feeder : DropNewestPut(p)
    \/ \E p \in Feeder : DropNewestOnDrop(p)
    \/ \E p \in Feeder : DropOldestLock(p)
    \/ \E p \in Feeder : DropOldestPut(p)
    \/ \E p \in Feeder : DropOldestGet(p)
    \/ \E p \in Feeder : DropOldestOnDrop(p)
    \/ \E p \in Feeder : BlockPut(p)
    \/ DrainStep("bg")
    \/ \E c \in Starters : StartEnter(c)
    \/ \E c \in Starters : StartThread(c)
    \/ \E c \in Starters : StartReturn(c)
    \/ RunWhile
    \/ \E interval_expired \in BOOLEAN : RunDecide(interval_expired)
    \/ FlushDrain("bg")
    \/ FlushBatch("bg")
    \/ \E raised \in BOOLEAN : FlushSent("bg", raised)

SpecStart == InitW /\ [][NextS]_vars

\* ===================================================== EventQueue claims
Pending == {p \in Producers : pt[p].pc \in {"dn_drop", "do_drop"}}
Returned(p) == pt[p].pc = "ret"
Undisturbed(t) == ~obs[t].intf
InProgress(c) == IF dr[c].pc = "loop" THEN dr[c].items ELSE <<>>
NothingDiscarded == rejected = {} /\ evicted = {}

\* C1: in every reachable state, for each overflow policy and any interleaving
\* of put() and drain(), the queue holds at most maxsize events.
C1_SizeWithinCapacity == Len(q) <= maxsize

\* a put() has run against a full queue and returned
C1_Witness ==
    /\ Len(q) = maxsize
    /\ \E p \in Producers : Returned(p) /\ obs[p].full

\* C2: while no event has been discarded, the batches drain has returned, the
\* batch being built and the queue, in this order, list the events in the
\* order they were enqueued; a drain(n) that ran alone returns the first
\* min(n, size) events of the queue it found.
C2_DrainIsFifo ==
    \A c \in Consumers :
        /\ NothingDiscarded => drained \o InProgress(c) \o q = accepted
        /\ (dr[c].pc = "ret" /\ Undisturbed(c)) =>
              dr[c].items = SubSeq(obs[c].q0, 1, Min(dr[c].n, Len(obs[c].q0)))

\* two successive drains have returned the first two events, in order
C2_Witness ==
    /\ NothingDiscarded
    /\ drained = <<1, 2>>
    /\ \E c \in Consumers : dr[c].pc = "ret" /\ dr[c].items = <<2>>

\* C3: under DROP_NEWEST a put() on a full queue returns False, adds exactly 1
\* to dropped_count and leaves the queue as it was; a put() on a queue that is
\* not full returns True, stores the event and leaves dropped_count alone.
C3_DropNewest ==
    policy = DROP_NEWEST =>
        \A p \in Producers : Returned(p) =>
            /\ pt[p].result = FALSE => obs[p].drops = 1
            /\ pt[p].result = TRUE => obs[p].drops = 0
            /\ Undisturbed(p) =>
                 IF obs[p].full
                 THEN /\ pt[p].result = FALSE
                      /\ dropped_count = obs[p].d0 + 1
                      /\ q = obs[p].q0
                 ELSE /\ pt[p].result = TRUE
                      /\ dropped_count = obs[p].d0
                      /\ q = Append(obs[p].q0, pt[p].event)

\* a put() on a full queue has returned False
C3_Witness ==
    /\ policy = DROP_NEWEST
    /\ \E p \in Producers :
          Returned(p) /\ Undisturbed(p) /\ obs[p].full /\ pt[p].result = FALSE

\* C4: under DROP_OLDEST every put() returns True; a put() on a full queue
\* adds exactly 1 to dropped_count, removes the oldest event and only it, and
\* leaves the new event as the newest with the others in their order.
C4_DropOldest ==
    policy = DROP_OLDEST =>
        \A p \in Producers : Returned(p) =>
            /\ pt[p].result = TRUE
            /\ obs[p].drops <= 1
            /\ (Undisturbed(p) /\ obs[p].full) =>
                 /\ obs[p].drops = 1
                 /\ dropped_count = obs[p].d0 + 1
                 /\ pt[p].dropped = Head(obs[p].q0)
                 /\ Head(obs[p].q0) \in evicted
                 /\ q = Append(Tail(obs[p].q0), pt[p].event)

\* a put() on a full queue of two events has evicted the oldest
C4_Witness ==
    /\ policy = DROP_OLDEST
    /\ \E p \in Producers :
          /\ Returned(p) /\ Undisturbed(p) /\ obs[p].full
          /\ Len(obs[p].q0) = 2 /\ Len(q) = 2

\* C5: under BLOCK a put() never returns False and nothing is ever dropped;
\* a put() that found the queue full returns, with the event stored, only
\* after a drain has removed an event during the call.
C5_Block ==
    policy = BLOCK =>
        /\ dropped_count = 0
        /\ NothingDiscarded
        /\ \A p \in Producers : Returned(p) =>
              /\ pt[p].result = TRUE
              /\ \E i \in 1..Len(accepted) : accepted[i] = pt[p].event
              /\ obs[p].full => obs[p].sawGet

\* a put() that found the queue full has returned
C5_Witness ==
    /\ policy = BLOCK
    /\ \E p \in Producers : Returned(p) /\ obs[p].full /\ pt[p].result = TRUE

\* C6: drain(n) returns at most n events; a drain(n) during which no producer
\* ran returns the first min(n, size) events and leaves the rest of the queue,
\* in order, behind.
C6_DrainRemovesWhatItReturns ==
    \A c \in Consumers :
        /\ Len(dr[c].items) <= dr[c].n
        /\ (dr[c].pc = "ret" /\ Undisturbed(c)) =>
              LET k == Min(dr[c].n, Len(obs[c].q0)) IN
              /\ Len(dr[c].items) = k
              /\ dr[c].items \o q = obs[c].q0

\* drain(1) on a queue of two events has returned one and left the other
C6_Witness ==
    \E c \in Consumers :
        /\ dr[c].pc = "ret" /\ Undisturbed(c)
        /\ dr[c].n = 1 /\ Len(obs[c].q0) = 2 /\ Len(q) = 1

\* C7: dropped_count is the number of events discarded for capacity reasons
\* (rejected under DROP_NEWEST, evicted under DROP_OLDEST), each counted once
\* as soon as the _on_drop call made for it has run; it never decreases, and
\* no step of drain() changes it.
C7_Accounting ==
    dropped_count + Cardinality(Pending)
        = Cardinality(rejected) + Cardinality(evicted)
C7_Step ==
    /\ dropped_count' >= dropped_count
    /\ dr' # dr => dropped_count' = dropped_count
C7_DroppedCount == [](C7_Accounting) /\ [][C7_Step]_vars

\* two events have been discarded and counted
C7_Witness == dropped_count = 2 /\ Pending = {} /\ evicted # {}

\* ================================================ BackgroundWorker claims
RECURSIVE Flatten(_)
Flatten(bs) == IF bs = <<>> THEN <<>> ELSE Head(bs) \o Flatten(Tail(bs))

\* the events given to send_batch, in the order the calls began
Sent == Flatten(sentBatches)

\* the place of event e in the order of enqueueing
Pos(e) == CHOOSE i \in 1..Len(accepted) : accepted[i] = e

CeilDiv(a, b) == (a + b - 1) \div b

\* C8: the batches given to send_batch, taken in the order the calls begin,
\* list the events in the order they were enqueued (flush() calls are made
\* one at a time here, so no two of them overlap).
C8_SentInEnqueueOrder ==
    \A i, j \in 1..Len(Sent) : i < j => Pos(Sent[i]) < Pos(Sent[j])

\* the flush() under watch and the loop have both finished their cycles
FlushSettled ==
    /\ scen.on
    /\ wk["h1"].pc \in {"done", "none"}
    /\ wk["bg"].pc \in {"while", "decide"}

\* C9: n events are buffered, the loop is running and idle, the interval does
\* not expire and no producer runs; once one flush() call is over, send_batch
\* has been called ceil(n / max_batch_size) times in all, with batches of
\* max_batch_size events except possibly the last, in FIFO order.
C9_FlushSendsCeilBatches ==
    FlushSettled =>
        /\ Len(sentBatches) = CeilDiv(scen.n, max_batch_size)
        /\ \A i \in 1..Len(sentBatches) :
              /\ sentBatches[i] # <<>>
              /\ i < Len(sentBatches) => Len(sentBatches[i]) = max_batch_size
        /\ C8_SentInEnqueueOrder

\* =================================================== HttpTransport claims
ServerErrors == {sc \in Statuses : 500 <= sc /\ sc < 600}

\* C10: send_batch on a non-empty batch, against a server that answers every
\* attempt with a 5xx status, makes exactly max_retries + 1 attempts and
\* returns a result with success = False.
C10_AlwaysFailingServer ==
    (nevents > 0 /\ answers \subseteq ServerErrors) =>
        /\ requests <= max_retries + 1
        /\ tpc = "done" => /\ requests = max_retries + 1
                           /\ last_result.success = FALSE
                           /\ last_result.status_code \in ServerErrors

\* max_retries = 2: three attempts answered 500, and the call is over
C10_Witness ==
    /\ tpc = "done" /\ nevents > 0
    /\ max_retries = 2 /\ answers = {500} /\ requests = 3

OkStatuses == {sc \in Statuses : 200 <= sc /\ sc < 300}

\* C11: send_batch on a non-empty batch stops at the first 2xx response: it
\* returns that response's result with success = True and makes no attempt
\* after it; when the first response is 2xx there is one attempt and no wait.
C11_StopsAtFirst2xx ==
    /\ (answers \cap OkStatuses # {}) =>
          /\ tpc = "done"
          /\ last_result.success = TRUE
          /\ last_result.status_code \in OkStatuses
    /\ (answers # {} /\ answers \subseteq OkStatuses) =>
          /\ requests = 1
          /\ sleeps = 0

\* max_retries = 3, the first response is 200: one attempt, no wait
C11_Witness ==
    /\ tpc = "done" /\ nevents > 0 /\ max_retries = 3
    /\ answers = {200} /\ requests = 1 /\ sleeps = 0 /\ last_result.success

\* C12: send_batch on a non-empty batch answered 401 makes one attempt
\* whatever max_retries is, does not wait, and returns success = False with
\* retryable = False; no attempt follows a 401.
C12_UnauthorizedIsTerminal ==
    /\ 401 \in answers =>
          /\ tpc = "done"
          /\ last_result.success = FALSE
          /\ last_result.retryable = FALSE
          /\ last_result.status_code = 401
    /\ answers = {401} =>
          /\ requests = 1
          /\ sleeps = 0

\* max_retries = 5, the response is 401: one attempt, no wait
C12_Witness ==
    /\ tpc = "done" /\ nevents > 0 /\ max_retries = 5
    /\ answers = {401} /\ requests = 1 /\ sleeps = 0
    /\ ~last_result.success /\ ~last_result.retryable

Clamp(x, lo, hi) == Max(lo, Min(x, hi))

\* the wait the claim gives for the headers h of a 429 response
RateLimitWait(h) ==
    IF h.reset.kind = "num" THEN Clamp(h.reset.v, 1 * Second, 60 * Second)
    ELSE IF h.retry.kind = "num" THEN Max(1 * Second, h.retry.v)
    ELSE 5 * Second

C13_WitnessReset ==
    /\ tpc = "sleep" /\ last_result.status_code = 429
    /\ headers = [reset |-> Num(3 * Second), retry |-> Num(120 * Second)]
    /\ wait_seconds = 3 * Second

\* C14: the backoff wait of a retry is min(2^k + j, 30) seconds for some
\* 0 <= j <= 0.2 * 2^k, k being the attempts that had failed before the one
\* just made (0 for the first retry): it lies in [2^k, 1.2 * 2^k] while
\* 1.2 * 2^k <= 30 and is never above 30.
C14_BackoffWait ==
    (tpc = "sleep" /\ last_result.retry_after = 0) =>
        LET k == requests - 1 IN
        /\ k = attempt /\ k = sleeps
        /\ wait_seconds <= 30 * Second
        /\ \E j \in 0..(2 * Pow2(k)) :
              wait_seconds = Min(Pow2(k) * Second + j, 30 * Second)
        /\ (12 * Pow2(k) <= 30 * Second) =>
              /\ Pow2(k) * Second <= wait_seconds
              /\ wait_seconds <= 12 * Pow2(k)

\* the sixth attempt has failed with a 5xx: 2^5 is above the cap, the wait is 30
C14_Witness ==
    /\ tpc = "sleep" /\ last_result.retry_after = 0
    /\ attempt = 5 /\ attempt < max_retries /\ wait_seconds = 30 * Second

\* ---------------------------------------------- BackgroundWorker.start
\* loop threads created, and those a start() call is about to create
Created == loops + Cardinality({c \in Starters : st[c] = "thread"})

C15_OneLoop ==
    /\ loops <= 1
    /\ Created = IF started THEN 1 ELSE 0

\* a start() call that begins on a started worker changes nothing
C15_Step ==
    \A c \in Starters :
        (started /\ st[c] = "none" /\ st'[c] # "none") =>
            /\ st'[c] = "noop"
            /\ UNCHANGED <<started, loops, wk>>

\* C15: start() is idempotent: however many start() calls are made, racing
\* ones included, one loop thread is created, and every call after the first
\* is a no-op.
C15_StartIsIdempotent == [](C15_OneLoop) /\ [][C15_Step]_vars

\* the loop thread exists and a later call has found the worker started
C15_Witness ==
    /\ loops = 1 /\ wk["bg"].pc # "none"
    /\ st["s1"] = "none" /\ st["s2"] = "noop"

\* ---------------------------------------------- BackgroundWorker.flush
C16_OneCycle ==
    /\ ~started => (wk["h1"].pc = "none" /\ wk["main"].pc # "wait_done")
    /\ wk["main"].pc = "wait_done" => (InFlush("h1") \/ wk["h1"].pc = "done")

\* the caller returning while the cycle runs leaves the cycle as it is
C16_Step ==
    (wk["main"].pc = "wait_done" /\ wk'["main"].pc = "none" /\ InFlush("h1")) =>
        /\ wk'["h1"] = wk["h1"]
        /\ UNCHANGED <<q, dr, sentBatches>>

\* C16: flush(timeout) on a started worker starts one drain-and-send cycle
\* of its own; while the caller waits the cycle is running or has signalled
\* its completion; the caller may return at the deadline with the cycle
\* still running, and the cycle then goes on; flush on a worker that was
\* never started does nothing.
C16_FlushWaitsForOneCycle == [](C16_OneCycle) /\ [][C16_Step]_vars

\* the caller is back from flush() and the cycle is still in a send
C16_Witness ==
    /\ started /\ wk["main"].pc = "none"
    /\ wk["h1"].pc = "f_send" /\ wk["h1"].batch # <<>>

\* ----------------------------------------------- BackgroundWorker.stop
\* C17: when stop(flush_remaining=True, timeout) returns, no producer having
\* enqueued since the call began, the buffer is empty and every event that
\* was buffered when stop was called has been given to send_batch; with
\* flush_remaining=False stop itself drains nothing.
C17_StopFlushesAll ==
    /\ (stp.on /\ stp.ret /\ stp.fr) => (q = <<>> /\ stp.owed = {})
    /\ (InFlush("main") \/ dr["main"].pc # "idle") => wk["main"].flush_remaining

\* C18: over any sequence of stop() calls on one worker,
\* HttpTransport.close is called exactly once.
C18_ClosedOnce == closed <= 1

\* ------------------------------------------------------------ exceptions
\* C19: no public operation lets an exception reach its caller: whatever
\* internal step of put, capture_error/capture_message, flush, stop or the
\* flush cycle fails, the call returns normally.
C19_NothingEscapes == \A t \in WorkerThreads : wk[t].pc # "raised"

\* ----------------------------------------------------------- DROP_OLDEST
\* put() of p has removed the oldest event and counted it as dropped, and
\* has not yet stored its own event
Evicting(p) ==
    /\ policy = DROP_OLDEST
    /\ pt[p].pc = "do_put"
    /\ pt[p].dropped # 0

\* while p is there, no other thread reads or changes the queue: no
\* get_nowait of a drain is served, and the queue changes by p's step only
C20_Step ==
    \A p \in Producers :
        (Evicting(p) /\ pt'[p] = pt[p]) =>
            /\ q' = q
            /\ \A c \in Consumers : dr[c].pc = "loop" => dr'[c] = dr[c]

\* C20: under DROP_OLDEST the eviction of the oldest event and the insertion
\* of the new one are atomic for every other thread: none observes or acts
\* on the state in between.
C20_EvictionInsertionAtomic == [][C20_Step]_vars

\* ---------------------------------------------------------- _do_flush
\* the events a thread holds between its drain and the end of its send
Held(t) == Events(dr[t].items) \cup Events(wk[t].batch)

C21_DrainedStaysOut ==
    /\ \A i, j \in 1..Len(Sent) : i # j => Sent[i] # Sent[j]
    /\ \A i \in 1..Len(q) :
          /\ q[i] \notin Events(Sent)
          /\ \A t \in WorkerThreads : q[i] \notin Held(t)

\* an event that enters the buffer was never in it before
C21_Step == \A e \in Events(q') \ Events(q) : e \notin Events(accepted)

\* C21: no event is put back into the buffer after a drain removed it,
\* whatever send_batch did with the batch (returned or raised); each event
\* is given to send_batch in at most one batch.
C21_NoRequeue == [](C21_DrainedStaysOut) /\ [][C21_Step]_vars

\* two batches have been given to send_batch, the cycles are over and the
\* buffer is empty
C21_Witness ==
    /\ Len(sentBatches) = 2 /\ q = <<>>
    /\ \A t \in WorkerThreads : ~InFlush(t) /\ dr[t].pc = "idle"
    /\ \A p \in Producers : pt[p].pc = "idle"

\* ------------------------------------------------- send_batch, the rest
\* C22: send_batch called with an empty batch returns success=True and
\* performs zero HTTP attempts and zero waits.
C22_EmptyBatch ==
    (nevents = 0 /\ tpc # "idle") =>
        /\ tpc = "done"
        /\ last_result.success
        /\ requests = 0 /\ sleeps = 0

\* send_batch([]) has its result
C22_Witness ==
    /\ tpc = "done" /\ nevents = 0
    /\ last_result = TransportResult(TRUE, EXC, FALSE, 0)

\* C24: send_batch waits only when another attempt follows: a retryable
\* failure on the last permitted attempt (attempt = max_retries) is returned
\* without sleeping, and a finished call has waited once less than it has
\* attempted.
C24_WaitsOnlyBeforeAttempt ==
    /\ tpc = "sleep" => attempt < max_retries
    /\ (tpc = "done" /\ nevents > 0) => sleeps = requests - 1

\* one attempt of send_batch has had status sc for its answer (EXC: the
\* request raised): what the result must be
Classified(sc, res) ==
    /\ res.status_code = sc
    /\ res.success = (200 <= sc /\ sc < 300)
    /\ res.retryable = (sc = EXC \/ sc = 429 \/ (500 <= sc /\ sc < 600))

C28_Result ==
    requests > 0 => \E sc \in Statuses : Classified(sc, last_result)

\* an attempt that is not the first follows a result with retryable=True
C28_Step ==
    (requests > 0 /\ requests' = requests + 1) =>
        (last_result.retryable /\ ~last_result.success)

\* C28: one HTTP attempt gives success for 2xx, a retryable failure for a
\* network exception, 5xx or 429, and a failure that is not retryable for
\* 401 and every other status; send_batch makes a further attempt only
\* after a retryable result.
C28_Classification == [](C28_Result) /\ [][C28_Step]_vars

\* a 404 ended the call at its second attempt, the first having raised
C28_Witness ==
    /\ tpc = "done" /\ requests = 2 /\ answers = {EXC, 404}
    /\ last_result = TransportResult(FALSE, 404, FALSE, 0)

\* C25: under DROP_OLDEST with capacity >= 1 every put() of every producer,
\* with other producers and a consumer running, comes to its end: the
\* thread that holds the lock enters it again to count the drop, and the
\* evict-and-retry loop ends.
C25_PutTerminates ==
    \A p \in Producers : InPut(p) ~> ~InPut(p)

\* p1 holds the lock, has evicted and counted the oldest event and is about
\* to store its own; p2 waits for the lock and the consumer is in a drain
C25_Witness ==
    /\ policy = DROP_OLDEST
    /\ pt["p1"].pc = "do_put" /\ pt["p1"].dropped # 0
    /\ lock.owner = "p1"
    /\ dropped_count >= 1
    /\ pt["p2"].pc = "do_lock"
    /\ dr["c1"].pc = "loop"

\* ------------------------------------------------------------- _run
\* one check of the loop: a cycle begins exactly when one of the three
\* conditions holds, the flush request is then cleared, and otherwise the
\* loop goes back to its `while` having touched neither buffer nor transport
C26_Check ==
    (wk["bg"].pc = "decide" /\ wk'["bg"].pc # "decide") =>
        LET go == \/ lp'.expired
                  \/ flush_event
                  \/ Len(q) >= max_batch_size
        IN  /\ (wk'["bg"].pc = "f_drain") = go
            /\ go => ~flush_event'
            /\ ~go => /\ wk'["bg"].pc = "while"
                      /\ UNCHANGED <<q, dr, sentBatches, flush_event>>

\* the end of a cycle of the loop: last_flush_time is reset, and no flush
\* request is pending
C26_CycleEnd ==
    (InFlush("bg") /\ wk'["bg"].pc = "while") =>
        (~lp'.expired /\ ~flush_event')

\* C26: in each iteration of the background loop a flush cycle is run if
\* and only if the flush interval has expired, a flush has been requested
\* or the buffer holds max_batch_size events or more; otherwise the
\* iteration drains nothing and only sleeps; after a cycle the last-flush
\* time is reset and the flush request is cleared.
C26_LoopIteration == [][C26_Check /\ C26_CycleEnd]_vars

\* a cycle of the loop begun on batch_ready alone, the interval not expired
C26_Witness ==
    /\ lp.armed /\ ~lp.expired
    /\ wk["bg"].pc = "f_drain"
    /\ Len(q) = max_batch_size

\* ---------------------------------------------------- _do_flush: except
\* the loop is at work whenever it has not been told to stop, and no
\* thread is left with an exception
C27_Absorbed ==
    lp.raised =>
        /\ \A t \in WorkerThreads : wk[t].pc # "raised"
        /\ ~stop_event => LoopAlive

\* the end of a send_batch, raised or not, leaves the buffer as it is and the
\* thread at the place a returning _do_flush leads to
C27_Step ==
    \A t \in WorkerThreads :
        (wk[t].pc = "f_send" /\ wk'[t].pc # "f_send") =>
            /\ q' = q
            /\ wk'[t].batch = <<>>
            /\ wk'[t].pc \in {"f_drain", AfterFlush(t)}

\* C27: an exception raised by send_batch during a flush cycle stays inside
\* the cycle: the loop keeps running, the caller of flush() or stop() sees
\* no exception, and the batch that was being sent does not go back to the
\* buffer.
C27_CycleAbsorbsException == [](C27_Absorbed) /\ [][C27_Step]_vars

\* a send_batch of the loop has raised, and the loop is sending a later batch
C27_Witness ==
    /\ lp.raised /\ ~stop_event
    /\ wk["bg"].pc = "f_send"
    /\ Len(sentBatches) >= 2

\* ------------------------------------------------------ stop, the loop
\* the loop leaves only at its `while`, the stop signal being set; there it
\* starts nothing more; a cycle under way goes on to its end
C29_Step ==
    /\ (wk["bg"].pc # "exit" /\ wk'["bg"].pc = "exit") =>
          (wk["bg"].pc = "while" /\ stop_event)
    /\ (wk["bg"].pc = "while" /\ stop_event /\ wk'["bg"] # wk["bg"]) =>
          wk'["bg"].pc = "exit"
    /\ wk["bg"].pc = "exit" => wk'["bg"].pc = "exit"
    /\ (InFlush("bg") /\ wk'["bg"] # wk["bg"]) =>
          (InFlush("bg")' \/ wk'["bg"].pc = "while")

\* C29: once the stop signal is set the loop starts no flush cycle after it
\* next sees the flag, and it exits in the end; a cycle in progress is not
\* interrupted and runs to its end before the loop exits; stop() comes
\* back from its join, whether the loop has ended or the timeout has passed,
\* and returns.
C29_CooperativeStop ==
    /\ [][C29_Step]_vars
    /\ (started /\ stop_event) ~> (wk["bg"].pc = "exit")
    /\ (wk["main"].pc = "join") ~> (wk["main"].pc = "none")

\* stop() has returned, its join having timed out, and the loop is still
\* inside the send_batch it was in
C29_Witness ==
    /\ stop_event /\ closed >= 1
    /\ wk["main"].pc = "none"
    /\ wk["bg"].pc = "f_send"

\* ------------------------------------------------- SIGTERM and atexit
\* C30: after start(), a delivered SIGTERM is answered by a flush cycle and
\* then by the disposition that was in force before start(): the
\* application's handler has run, or, the disposition being the default,
\* the process has been terminated; the hook of normal exit calls stop with
\* a final flush.
C30_SigtermChained ==
    /\ (sg.installed /\ sg.pc = "handled") =>
          /\ sg.orig = "handler" => sg.ran
          /\ sg.orig = "default" => ~sg.alive
    /\ (sg.exiting /\ wk["main"].pc # "none") =>
          (stop_event /\ wk["main"].flush_remaining)

\* ------------------------------------------------------ flush cycles
\* C23: at no time are two threads (the background loop, a flush() helper,
\* stop() in its final flush) each inside a flush cycle, the drain of the
\* shared buffer followed by send_batch, of the same worker.
C23_OneFlushCycleAtATime ==
    Cardinality({t \in WorkerThreads : InFlush(t)}) <= 1

\* ------------------------------------------------------ conservation
\* how many times event e occurs in the sequence sq
Count(sq, e) == Cardinality({i \in 1..Len(sq) : sq[i] = e})

\* how many times e occurs in the batches drain calls are building
CountInProgress(e) ==
    Cardinality({x \in Consumers \X (1..MaxDrain) :
                    /\ x[2] <= Len(InProgress(x[1]))
                    /\ InProgress(x[1])[x[2]] = e})

\* C31: each event for which put() returned True is in exactly one place:
\* the buffer, the events evicted under DROP_OLDEST (each counted once in
\* dropped_count once its _on_drop has run), or one batch of drain, returned
\* or being built; nothing else is in any of these places, and no accepted
\* event is duplicated or lost.
C31_EventConservation ==
    /\ \A e \in Events(accepted) :
          /\ Count(accepted, e) = 1
          /\ Count(q, e) + Count(drained, e) + CountInProgress(e)
                + (IF e \in evicted THEN 1 ELSE 0) = 1
    /\ Events(q) \cup Events(drained) \cup evicted \subseteq Events(accepted)
    /\ Len(q) + Len(drained) + Cardinality(evicted)
          + Cardinality({e \in Events(accepted) : CountInProgress(e) = 1})
          = Len(accepted)
    /\ IF policy = DROP_OLDEST
       THEN dropped_count + Cardinality(Pending) = Cardinality(evicted)
       ELSE evicted = {}

\* one accepted event in each place: evicted, returned by a drain, buffered
C31_Witness ==
    /\ policy = DROP_OLDEST
    /\ Len(accepted) = 3
    /\ q # <<>> /\ drained # <<>> /\ evicted # {}
    /\ \A p \in Producers : pt[p].pc = "idle"
    /\ \A c \in Consumers : dr[c].pc = "idle"

\* ------------------------------------------------ the closed transport
\* C32: once stop() has closed the transport, no thread of the worker (the
\* loop after a join that timed out, a flush() helper, a later stop()) is
\* inside a send_batch call on it.
C32_NoSendAfterClose ==
    closed >= 1 => \A t \in WorkerThreads : wk[t].pc # "f_send"

\* ------------------------------------------------------------ hand-off
\* C33: with the loop running and never stopped, every event accepted into
\* the buffer is in the end given to send_batch, or evicted, without any
\* flush() call and whether or not the buffer ever holds max_batch_size
\* events.
C33_EventualHandoff ==
    \A e \in 1..MaxFed :
        (started /\ e \in Events(q)) ~> (e \in Events(Sent) \/ e \in evicted)

\* the buffer is smaller than a batch, and what it held has been sent
C33_Witness ==
    /\ started /\ ~stop_event
    /\ max_batch_size > maxsize
    /\ q = <<>> /\ Sent # <<>>
    /\ Events(Sent) \cup evicted = Events(accepted)

\* ------------------------------------------- send_batch: termination
\* a call on a non-empty batch makes at most max_retries + 1 attempts, and
\* has made one at least when it returns
C34_Attempts ==
    nevents > 0 =>
        /\ requests <= max_retries + 1
        /\ tpc = "done" => requests >= 1

\* last_result is what the latest attempt gave: set by an attempt to the
\* result of the answer it had, and left alone until the call has returned
C34_Step ==
    /\ requests' = requests + 1 =>
          \E sc \in answers' : Classified(sc, last_result')
    /\ (requests' = requests /\ requests > 0) => last_result' = last_result

\* what a call in progress has left to do, at most: two steps for each
\* attempt still allowed and one to leave the loop
Remaining ==
    CASE tpc = "loop" -> 2 * (max_retries + 1 - attempt) + 1
      [] tpc = "sleep" -> 2 * (max_retries + 1 - attempt)
      [] OTHER -> 0

\* a call in progress can always take its next step, and every step it
\* takes leaves less to do
C34_Progress == tpc \in {"loop", "sleep"} => (Remaining > 0 /\ ENABLED SendStep)
C34_Decrease == tpc \in {"loop", "sleep"} => Remaining' < Remaining

\* C34: for every sequence of answers and every max_retries >= 0, send_batch
\* on a non-empty batch comes to its end (each step brings it nearer, and it
\* is never stuck) after at least 1 and at most max_retries + 1 attempts,
\* and returns the result of its last attempt.
C34_SendTerminates ==
    /\ [](C34_Attempts /\ C34_Progress)
    /\ [][C34_Step /\ C34_Decrease]_vars

\* max_retries = 0: one attempt, a network exception, and the call is over
C34_Witness ==
    /\ tpc = "done" /\ nevents > 0
    /\ max_retries = 0 /\ requests = 1
    /\ last_result = TransportResult(FALSE, EXC, TRUE, 0)

====
